---- MODULE Spec2Model ----
(***************************************************************************)
(* iheCoder/progress_reporter (src/reporter.go).                           *)
(*                                                                         *)
(* ProgressBar (second file of the listing, lines 100-286): a mutex-       *)
(* guarded pair of counters with a stage name, rendered to the console     *)
(* after every mutation.  Every public method is modelled as a call made   *)
(* by one of the goroutines in Procs: the call is issued, pb.mu.Lock() is  *)
(* taken, the body runs statement by statement (loads and stores of the    *)
(* shared fields are separate steps), the status line is written, and the  *)
(* deferred pb.mu.Unlock() runs.  Go's int is modelled as a two's          *)
(* complement integer of IntBits bits, float64 as a binary float with a    *)
(* significand of FloatBits bits; time is counted in whole seconds.        *)
(*                                                                         *)
(* ProgressReporter (first file of the listing, lines 1-98): a stage       *)
(* timer without a lock, modelled statement by statement as well.          *)
(*                                                                         *)
(* Specifications: Spec and FairSpec (ProgressBar, two goroutines),        *)
(* FormatSpec (one Display of a bar in any state 0 <= current <= total),   *)
(* VariantSpec and FairVariantSpec (the older ProgressBar of               *)
(* src/unnamed/part_000 and part_001, whose methods call Display with the  *)
(* mutex held), TimerSpec (ProgressReporter, one caller) and RaceSpec      *)
(* (ProgressReporter, two goroutines on one stage name).                   *)
(***************************************************************************)
EXTENDS Integers, Sequences, FiniteSets, TLC

\* ------------------------------------------------------------------ bounds
IntBits == 4
FloatBits == 5
MaxCalls == 2
MaxTime == 1
MaxTimerCalls == 4
MaxRaceCalls == 3
MaxClock == 3
TicksPerSecond == 2

\* --------------------------------------------------------- Go int arithmetic
MinInt == -(2 ^ (IntBits - 1))
MaxInt == (2 ^ (IntBits - 1)) - 1

\* x reduced to the range of int: the result of a Go int addition.
Wrap(x) == ((x - MinInt) % (2 ^ IntBits)) + MinInt

\* int(f) for a rational f = num/den, den > 0: truncation toward zero.
TruncDiv(num, den) == IF num >= 0 THEN num \div den ELSE -((-num) \div den)

\* ------------------------------------------------------------ input domains
Procs == {"g1", "g2"}
NoProc == "none"
InitTotals == {0, MaxInt}
BarLengths == {1, 2}
IncArgs == {-1, MaxInt}
DeltaArgs == {-2, MaxInt}
StageNames == {"load", "parse"}
\* The stage name Finish sets (the two-character literal meaning "done").
DoneStage == "done"
ErrorNotice == "Error: Increment value cannot be negative."

VARIABLES
    total,              \* pb.total
    current,            \* pb.current
    barLength,          \* pb.barLength
    startTime,          \* pb.startTime
    description,        \* pb.description
    currentStageName,   \* pb.currentStageName
    mu,                 \* pb.mu: the goroutine holding it, or NoProc
    now,                \* the clock read by time.Now / time.Since
    pc,                 \* per goroutine: position in its current call
    op,                 \* per goroutine: the call in progress and its argument
    tmp,                \* per goroutine: the operand loaded by += before the store
    out,                \* the console: everything written so far, in order
    calls,              \* number of calls issued so far
    hist,               \* the calls in the order they acquired pb.mu
    muts,               \* the mutations in the order they took effect
    lin,                \* the fields after running hist one call at a time
    clamped,            \* some call so far took a clamping branch
    total0,             \* the total passed to NewProgressBar
    pr,                 \* the ProgressReporter: startTime, endTime, totalDuration
    ks,                 \* p.ks: the keyStage of every name started so far
    clock,              \* the clock read by the ProgressReporter, in ticks
    rpc,                \* per goroutine: position in its ProgressReporter call
    rop,                \* per goroutine: that call and its argument
    reg,                \* per goroutine: currentDuration and the operand of += / ++
    report,             \* the lines Report has printed, in order
    rcalls,             \* number of ProgressReporter calls issued so far
    rdone,              \* the ProgressReporter calls that have returned, in order
    overlap             \* some call was issued while another was in progress

vars == <<total, current, barLength, startTime, description, currentStageName,
          mu, now, pc, op, tmp, out, calls, hist, muts, lin, clamped, total0>>

fields == <<total, current, barLength, startTime, description, currentStageName>>
ghost == <<hist, muts, lin, clamped, total0>>

\* The variables of the ProgressReporter, which no ProgressBar method touches.
tvars == <<pr, ks, clock, rpc, rop, reg, report, rcalls, rdone, overlap>>

allvars == <<vars, tvars>>

NoOp == [name |-> "none", n |-> 0, stage |-> "", id |-> 0, proc |-> NoProc]

\* ------------------------------------------------------------- rendering
\* float64 -> int conversion of num/den (den # 0): truncation toward zero; a
\* value below the range of int converts to MinInt on amd64 and arm64 alike,
\* one above it is not produced for 0 <= current <= total.
ToInt(num, den) ==
    LET q == IF den > 0 THEN TruncDiv(num, den) ELSE TruncDiv(-num, -den)
    IN  IF q < MinInt THEN MinInt ELSE IF q > MaxInt THEN MaxInt ELSE q

\* %3.0f of num/den (den > 0): nearest integer, ties to even.
RoundHalfEven(num, den) ==
    LET neg == num < 0
        a == IF neg THEN -num ELSE num
        f == a \div den
        r == a % den
        m == IF 2 * r > den THEN f + 1
             ELSE IF 2 * r < den THEN f
             ELSE IF f % 2 = 0 THEN f ELSE f + 1
    IN  IF neg THEN -m ELSE m

\* ------------------------------------------------------ float64 arithmetic
\* A float64 value is the pair <<num, den>>, den a power of two, with a
\* significand of FloatBits bits.
\* The least s >= 0 with a * 2^s >= 2^(FloatBits-1) * d, for a/d < 2^FloatBits.
RECURSIVE ShiftUp(_, _, _)
ShiftUp(a, d, s) ==
    IF a * (2 ^ s) >= (2 ^ (FloatBits - 1)) * d THEN s ELSE ShiftUp(a, d, s + 1)

\* The least k >= 1 with a < 2^FloatBits * d * 2^k, for a/d >= 2^FloatBits.
RECURSIVE ShiftDown(_, _, _)
ShiftDown(a, d, k) ==
    IF a < (2 ^ FloatBits) * d * (2 ^ k) THEN k ELSE ShiftDown(a, d, k + 1)

\* The exponent that brings a/d (a, d > 0) into [2^(FloatBits-1), 2^FloatBits).
FloatShift(a, d) ==
    IF a >= (2 ^ FloatBits) * d THEN -ShiftDown(a, d, 1) ELSE ShiftUp(a, d, 0)

\* num/den with its significand, scaled by 2^s, rounded to an integer.
RoundAt(num, den, s) ==
    IF s >= 0
    THEN <<RoundHalfEven(num * (2 ^ s), den), 2 ^ s>>
    ELSE <<RoundHalfEven(num, den * (2 ^ (-s))) * (2 ^ (-s)), 1>>

\* The float64 nearest to num/den (den > 0), ties to even: the rounding every
\* float64 conversion, division and multiplication ends with.
RoundFloat(num, den) ==
    IF num = 0 THEN <<0, 1>>
    ELSE CHOOSE r \in {RoundAt(num, den, s) :
                          s \in {FloatShift(IF num < 0 THEN -num ELSE num, den)}} : TRUE

\* float64(i) for an int i.
Float(i) == RoundFloat(i, 1)

\* x / y for float64 x and y, y # 0.
FloatDiv(x, y) ==
    IF y[1] > 0 THEN RoundFloat(x[1] * y[2], x[2] * y[1])
    ELSE RoundFloat(-(x[1] * y[2]), x[2] * (-y[1]))

\* x * y for float64 x and y.
FloatMul(x, y) == RoundFloat(x[1] * y[1], x[2] * y[2])

\* percent = float64(current) / float64(total), total # 0.
Percent(cur, tot) ==
    CHOOSE p \in {FloatDiv(x, y) : x \in {Float(cur)}, y \in {Float(tot)}} : TRUE

\* int(float64(barLength) * percent)
FilledLength(barLen, cur, tot) ==
    CHOOSE n \in {ToInt(f[1], f[2]) :
                     f \in {FloatMul(x, y) : x \in {Float(barLen)}, y \in {Percent(cur, tot)}}} : TRUE

\* percent*100 as %3.0f prints it.
PercentShown(cur, tot) ==
    CHOOSE n \in {RoundHalfEven(f[1], f[2]) :
                     f \in {FloatMul(x, y) : x \in {Percent(cur, tot)}, y \in {Float(100)}}} : TRUE

\* (time.Duration(etaSeconds*1000) * time.Millisecond).Round(time.Second), in
\* seconds, for etaSeconds = remaining / (cur / elapsed).
EtaSeconds(remaining, cur, elapsed) ==
    LET ms == TruncDiv(remaining * elapsed * 1000, cur)
    IN  IF ms >= 0 THEN (ms + 500) \div 1000 ELSE -((500 - ms) \div 1000)

\* avgSpeed = float64(current) / elapsedSeconds as the pair <<current, elapsed>>,
\* or 0 when it is not computed.
HasSpeed(cur, elapsed) == elapsed > 0 /\ cur > 0

AvgSpeed(cur, elapsed) == IF HasSpeed(cur, elapsed) THEN <<cur, elapsed>> ELSE <<0, 1>>

\* etaString.
Eta(cur, tot, elapsed) ==
    IF cur = tot THEN [kind |-> "Done", secs |-> 0]
    ELSE IF HasSpeed(cur, elapsed)
         THEN [kind |-> "duration", secs |-> EtaSeconds(Wrap(tot - cur), cur, elapsed)]
    ELSE IF cur = 0 /\ tot > 0 THEN [kind |-> "Estimating...", secs |-> 0]
    ELSE [kind |-> "N/A", secs |-> 0]

\* The denominators of the divisions made for the speed and the ETA.
SpeedDivisors(cur, tot, elapsed) ==
    (IF HasSpeed(cur, elapsed) THEN {"elapsedSeconds"} ELSE {})
    \cup (IF cur # tot /\ HasSpeed(cur, elapsed) THEN {"avgSpeed"} ELSE {})

\* The line of the total == 0 branch: "[ " barLength dashes " ]", 0%.
\* panic: a strings.Repeat count is negative.
ZeroTotalLine(cur, tot, desc, barLen, elapsed, stage) ==
    [panic |-> barLen < 0, padded |-> TRUE, description |-> desc,
     fill |-> 0, empty |-> barLen, percent |-> 0,
     current |-> cur, total |-> tot, stage |-> stage,
     elapsed |-> elapsed, avg |-> AvgSpeed(cur, elapsed),
     eta |-> Eta(cur, tot, elapsed),
     divisors |-> SpeedDivisors(cur, tot, elapsed)]

\* The line of the general branch: filledLength "=" then the rest "-".
BarLine(cur, tot, desc, barLen, elapsed, stage) ==
    LET filledLength == FilledLength(barLen, cur, tot)
    IN  [panic |-> filledLength < 0 \/ barLen - filledLength < 0,
         padded |-> FALSE, description |-> desc,
         fill |-> filledLength, empty |-> barLen - filledLength,
         percent |-> PercentShown(cur, tot),
         current |-> cur, total |-> tot, stage |-> stage,
         elapsed |-> elapsed, avg |-> AvgSpeed(cur, elapsed),
         eta |-> Eta(cur, tot, elapsed),
         divisors |-> SpeedDivisors(cur, tot, elapsed) \cup {"total"}]

\* formatProgressBar without its total == 0 branch: the division by total is
\* made, int(NaN) is the smallest int and strings.Repeat panics on it.
formatProgressBarUnguarded(cur, tot, desc, barLen, elapsed, stage) ==
    IF tot = 0
    THEN [ZeroTotalLine(cur, tot, desc, barLen, elapsed, stage)
            EXCEPT !.panic = TRUE, !.padded = FALSE, !.fill = MinInt,
                   !.divisors = @ \cup {"total"}]
    ELSE BarLine(cur, tot, desc, barLen, elapsed, stage)

\* The status line of formatProgressBar, field by field.
formatProgressBar(cur, tot, desc, barLen, elapsed, stage) ==
    IF tot = 0
    THEN ZeroTotalLine(cur, tot, desc, barLen, elapsed, stage)
    ELSE BarLine(cur, tot, desc, barLen, elapsed, stage)

\* What the console receives.
LineEvent(id, text) == [kind |-> "line", id |-> id, text |-> <<text>>]
NewlineEvent(id) == [kind |-> "newline", id |-> id, text |-> <<>>]
NoticeEvent(id) == [kind |-> "notice", id |-> id, text |-> <<>>]

\* ---------------------------------------------------------- ProgressReporter
\* src/reporter.go, first file of the listing (lines 1-98).  No method takes a
\* lock: every statement of a call is a step of its own, and a load and the
\* store that follows it (+=, ++) are two steps.  Times and durations are
\* counted in ticks, TicksPerSecond to the second.
StageKeys == {"a", "b"}

\* The zero time.Time of a field that was never assigned.
ZeroTime == -1

\* time.Duration(1<<63 - 1), the largest Duration.
MaxDuration == MaxInt

\* t.Sub(u): the difference, saturated when one of the two is the zero Time
\* (more than 292 years away from any reading of the clock).
Sub(t, u) ==
    IF t = ZeroTime /\ u = ZeroTime THEN 0
    ELSE IF u = ZeroTime THEN MaxDuration
    ELSE IF t = ZeroTime THEN -MaxDuration
    ELSE t - u

\* d / time.Second, as Report prints it.
Seconds(d) == TruncDiv(d, TicksPerSecond)

\* A keyStage whose smallest duration starts at zero.
NewKeyStageZeroMin(name) ==
    [name |-> name, totalDuration |-> 0, count |-> 0, maxDuration |-> 0,
     minDuration |-> 0, startTime |-> ZeroTime, endTime |-> ZeroTime]

\* &keyStage{name: name, minDuration: time.Duration(1<<63 - 1)}
NewKeyStage(name) ==
    [name |-> name, totalDuration |-> 0, count |-> 0, maxDuration |-> 0,
     minDuration |-> MaxDuration, startTime |-> ZeroTime, endTime |-> ZeroTime]

\* at: the reading of the clock the call has stored.
NoCall == [name |-> "none", key |-> "", id |-> 0, proc |-> NoProc, at |-> ZeroTime]

NoReg == [currentDuration |-> 0, operand |-> 0]

\* NewProgressReporter(): zero times, zero duration, an empty map.
NewProgressReporter ==
    /\ pr = [startTime |-> ZeroTime, endTime |-> ZeroTime, totalDuration |-> 0]
    /\ ks = [k \in {} |-> NewKeyStage(k)]
    /\ clock = 0
    /\ rpc = [t \in Procs |-> "idle"]
    /\ rop = [t \in Procs |-> NoCall]
    /\ reg = [t \in Procs |-> NoReg]
    /\ report = <<>>
    /\ rcalls = 0
    /\ rdone = <<>>
    /\ overlap = FALSE

\* ------------------------------------------------------------ construction
\* A ProgressBar whose fields are tot, cur and len, with no call in progress
\* and nothing on the console.
BarState(tot, cur, len) ==
    /\ total = tot
    /\ current = cur
    /\ barLength = len
    /\ startTime = 0
    /\ description = "task"
    /\ currentStageName = ""
    /\ mu = NoProc
    /\ now = 0
    /\ pc = [t \in Procs |-> "idle"]
    /\ op = [t \in Procs |-> NoOp]
    /\ tmp = [t \in Procs |-> 0]
    /\ out = <<>>
    /\ calls = 0
    /\ hist = <<>>
    /\ muts = <<>>
    /\ lin = [current |-> cur, total |-> tot, stage |-> ""]
    /\ clamped = FALSE
    /\ total0 = tot

\* NewProgressBar(description, total, barLength): current is 0.
NewProgressBar(tot, len) == BarState(tot, 0, len)

\* NewProgressBar with total >= 0 and barLength > 0, and NewProgressReporter;
\* no goroutine has called anything yet.
Init ==
    /\ \E tot \in InitTotals, len \in BarLengths : NewProgressBar(tot, len)
    /\ NewProgressReporter

\* ------------------------------------------------- sequential semantics
\* The fields after one whole call, run alone, from the fields s.
SeqIncrementBy(s, n) ==
    IF n < 0 THEN s
    ELSE LET c == Wrap(s.current + n)
         IN  [s EXCEPT !.current = IF c > s.total THEN s.total ELSE c]

SeqAddTotal(s, n) ==
    LET t0 == Wrap(s.total + n)
        t1 == IF t0 < 0 THEN 0 ELSE t0
    IN  [s EXCEPT !.total = t1,
                  !.current = IF s.current > t1 THEN t1 ELSE s.current]

SeqApply(s, o) ==
    CASE o.name \in {"Increment", "IncrementBy"} -> SeqIncrementBy(s, o.n)
      [] o.name = "AddTotal" -> SeqAddTotal(s, o.n)
      [] o.name = "SetCurrentStage" -> [s EXCEPT !.stage = o.stage]
      [] o.name = "Finish" -> [s EXCEPT !.current = s.total, !.stage = DoneStage]
      [] OTHER -> s

\* ------------------------------------------------------------------ calls
\* A goroutine that is in no call issues one: the next statement is
\* pb.mu.Lock().
Enter(t, o) ==
    /\ pc[t] = "idle"
    /\ calls < MaxCalls
    /\ calls' = calls + 1
    /\ op' = [op EXCEPT ![t] = [o EXCEPT !.id = calls + 1, !.proc = t]]
    /\ pc' = [pc EXCEPT ![t] = "lock"]
    /\ UNCHANGED <<fields, mu, now, tmp, out, ghost, tvars>>

Increment(t) == Enter(t, [NoOp EXCEPT !.name = "Increment", !.n = 1])

IncrementBy(t, n) == Enter(t, [NoOp EXCEPT !.name = "IncrementBy", !.n = n])

AddTotal(t, n) == Enter(t, [NoOp EXCEPT !.name = "AddTotal", !.n = n])

SetCurrentStage(t, name) ==
    Enter(t, [NoOp EXCEPT !.name = "SetCurrentStage", !.stage = name])

Display(t) == Enter(t, [NoOp EXCEPT !.name = "Display"])

Finish(t) == Enter(t, [NoOp EXCEPT !.name = "Finish"])

\* A mutex that excludes nobody.
MutexNeverHeld == TRUE

\* sync.Mutex: Lock proceeds only while no goroutine holds the mutex.
MutexFree == mu = NoProc

FirstStatement(name) ==
    CASE name \in {"Increment", "IncrementBy"} -> "inc_check"
      [] name = "AddTotal" -> "add_load"
      [] name = "SetCurrentStage" -> "set_stage"
      [] name = "Display" -> "display"
      [] name = "Finish" -> "finish_set"

\* pb.mu.Lock() at the top of every public method.
Lock(t) ==
    /\ pc[t] = "lock"
    /\ MutexFree
    /\ mu' = t
    /\ pc' = [pc EXCEPT ![t] = FirstStatement(op[t].name)]
    /\ hist' = Append(hist, op[t])
    /\ lin' = SeqApply(lin, op[t])
    /\ UNCHANGED <<fields, now, op, tmp, out, calls, muts, clamped, total0, tvars>>

Goto(t, label) == pc' = [pc EXCEPT ![t] = label]

\* The record of a mutation that has just taken effect.
Mutation(t, cur, tot, stage) ==
    [id |-> op[t].id, current |-> cur, total |-> tot, stage |-> stage,
     outLen |-> Len(out)]

\* A check that lets every n through.
RejectedNever(n) == FALSE

\* if n < 0 { ... return }
Rejected(n) == n < 0

\* IncrementBy after Lock: the check of n, then the load of pb.current for +=.
IncrementByCheck(t) ==
    /\ pc[t] = "inc_check"
    /\ IF Rejected(op[t].n)
       THEN /\ out' = Append(out, NoticeEvent(op[t].id))
            /\ Goto(t, "unlock")
            /\ UNCHANGED tmp
       ELSE /\ tmp' = [tmp EXCEPT ![t] = current]
            /\ Goto(t, "inc_store")
            /\ UNCHANGED out
    /\ UNCHANGED <<fields, mu, now, op, calls, ghost, tvars>>

\* pb.current += n; if pb.current > pb.total { pb.current = pb.total }
IncrementByStore(t) ==
    /\ pc[t] = "inc_store"
    /\ LET c == Wrap(tmp[t] + op[t].n)
           c1 == IF c > total THEN total ELSE c
       IN  /\ current' = c1
           /\ clamped' = (clamped \/ c > total)
           /\ muts' = Append(muts, Mutation(t, c1, total, currentStageName))
    /\ tmp' = [tmp EXCEPT ![t] = 0]
    /\ Goto(t, "render")
    /\ UNCHANGED <<total, barLength, startTime, description, currentStageName,
                   mu, now, op, out, calls, hist, lin, total0, tvars>>

\* AddTotal after Lock: the load of pb.total for +=.
AddTotalLoad(t) ==
    /\ pc[t] = "add_load"
    /\ tmp' = [tmp EXCEPT ![t] = total]
    /\ Goto(t, "add_store")
    /\ UNCHANGED <<fields, mu, now, op, out, calls, ghost, tvars>>

\* pb.total += n; if pb.total < 0 { pb.total = 0 };
\* if pb.current > pb.total { pb.current = pb.total }
AddTotalStore(t) ==
    /\ pc[t] = "add_store"
    /\ LET t0 == Wrap(tmp[t] + op[t].n)
           t1 == IF t0 < 0 THEN 0 ELSE t0
           c1 == IF current > t1 THEN t1 ELSE current
       IN  /\ total' = t1
           /\ current' = c1
           /\ clamped' = (clamped \/ t0 < 0 \/ current > t1)
           /\ muts' = Append(muts, Mutation(t, c1, t1, currentStageName))
    /\ tmp' = [tmp EXCEPT ![t] = 0]
    /\ Goto(t, "render")
    /\ UNCHANGED <<barLength, startTime, description, currentStageName,
                   mu, now, op, out, calls, hist, lin, total0, tvars>>

\* A SetCurrentStage that also starts the count again.
SetCurrentStageStoreResets(t) ==
    /\ pc[t] = "set_stage"
    /\ currentStageName' = op[t].stage
    /\ current' = 0
    /\ muts' = Append(muts, Mutation(t, 0, total, op[t].stage))
    /\ Goto(t, "render")
    /\ UNCHANGED <<total, barLength, startTime, description,
                   mu, now, op, tmp, out, calls, hist, lin, clamped, total0, tvars>>

\* pb.currentStageName = name
SetCurrentStageStore(t) ==
    /\ pc[t] = "set_stage"
    /\ currentStageName' = op[t].stage
    /\ muts' = Append(muts, Mutation(t, current, total, op[t].stage))
    /\ Goto(t, "render")
    /\ UNCHANGED <<total, current, barLength, startTime, description,
                   mu, now, op, tmp, out, calls, hist, lin, clamped, total0, tvars>>

\* A Finish that only renames the stage.
FinishStoreStageOnly(t) ==
    /\ pc[t] = "finish_set"
    /\ currentStageName' = DoneStage
    /\ muts' = Append(muts, Mutation(t, current, total, DoneStage))
    /\ Goto(t, "render")
    /\ UNCHANGED <<total, current, barLength, startTime, description,
                   mu, now, op, tmp, out, calls, hist, lin, clamped, total0, tvars>>

\* pb.current = pb.total; pb.currentStageName = <the done literal>
FinishStore(t) ==
    /\ pc[t] = "finish_set"
    /\ current' = total
    /\ currentStageName' = DoneStage
    /\ muts' = Append(muts, Mutation(t, total, total, DoneStage))
    /\ Goto(t, "render")
    /\ UNCHANGED <<total, barLength, startTime, description,
                   mu, now, op, tmp, out, calls, hist, lin, clamped, total0, tvars>>

\* fmt.Print(output); if current == total { fmt.Println() }
Printed(id, text, cur, tot) ==
    IF cur = tot
    THEN out \o <<LineEvent(id, text), NewlineEvent(id)>>
    ELSE Append(out, LineEvent(id, text))

\* displayWithoutLock(pb.current, pb.total, ...) as called by IncrementBy,
\* AddTotal, SetCurrentStage and Finish.  A panic of strings.Repeat unwinds the
\* call before anything is written.
displayWithoutLock(t) ==
    /\ pc[t] = "render"
    /\ LET text == formatProgressBar(current, total, description, barLength,
                                     now - startTime, currentStageName)
       IN  IF text.panic
           THEN /\ Goto(t, "panic")
                /\ UNCHANGED out
           ELSE /\ out' = Printed(op[t].id, text, current, total)
                /\ Goto(t, IF op[t].name = "Finish" THEN "finish_nl" ELSE "unlock")
    /\ UNCHANGED <<fields, mu, now, op, tmp, calls, ghost, tvars>>

\* The body of Display, which formats and prints the fields itself.
DisplayBody(t) ==
    /\ pc[t] = "display"
    /\ LET text == formatProgressBar(current, total, description, barLength,
                                     now - startTime, currentStageName)
       IN  IF text.panic
           THEN /\ Goto(t, "panic")
                /\ UNCHANGED out
           ELSE /\ out' = Printed(op[t].id, text, current, total)
                /\ Goto(t, "unlock")
    /\ UNCHANGED <<fields, mu, now, op, tmp, calls, ghost, tvars>>

\* The closing fmt.Println() of Finish.
FinishNewline(t) ==
    /\ pc[t] = "finish_nl"
    /\ out' = Append(out, NewlineEvent(op[t].id))
    /\ Goto(t, "unlock")
    /\ UNCHANGED <<fields, mu, now, op, tmp, calls, ghost, tvars>>

\* The deferred pb.mu.Unlock() on return: the call is over.
Unlock(t) ==
    /\ pc[t] = "unlock"
    /\ mu' = NoProc
    /\ Goto(t, "idle")
    /\ op' = [op EXCEPT ![t] = NoOp]
    /\ UNCHANGED <<fields, now, tmp, out, calls, ghost, tvars>>

\* The deferred pb.mu.Unlock() while the panic unwinds: the mutex is released,
\* the call never returns to its caller.
PanicUnlock(t) ==
    /\ pc[t] = "panic"
    /\ mu' = NoProc
    /\ Goto(t, "panicked")
    /\ op' = [op EXCEPT ![t] = NoOp]
    /\ UNCHANGED <<fields, now, tmp, out, calls, ghost, tvars>>

\* The clock advances.
Tick ==
    /\ now < MaxTime
    /\ now' = now + 1
    /\ UNCHANGED <<fields, mu, pc, op, tmp, out, calls, ghost, tvars>>

\* One statement of the call goroutine t is in.
Step(t) ==
    \/ IncrementByCheck(t)
    \/ IncrementByStore(t)
    \/ AddTotalLoad(t)
    \/ AddTotalStore(t)
    \/ SetCurrentStageStore(t)
    \/ FinishStore(t)
    \/ displayWithoutLock(t)
    \/ DisplayBody(t)
    \/ FinishNewline(t)
    \/ Unlock(t)
    \/ PanicUnlock(t)

Next ==
    \/ \E t \in Procs : Increment(t)
    \/ \E t \in Procs, n \in IncArgs : IncrementBy(t, n)
    \/ \E t \in Procs, n \in DeltaArgs : AddTotal(t, n)
    \/ \E t \in Procs, name \in StageNames : SetCurrentStage(t, name)
    \/ \E t \in Procs : Display(t)
    \/ \E t \in Procs : Finish(t)
    \/ \E t \in Procs : Lock(t)
    \/ \E t \in Procs : IncrementByCheck(t)
    \/ \E t \in Procs : IncrementByStore(t)
    \/ \E t \in Procs : AddTotalLoad(t)
    \/ \E t \in Procs : AddTotalStore(t)
    \/ \E t \in Procs : SetCurrentStageStore(t)
    \/ \E t \in Procs : FinishStore(t)
    \/ \E t \in Procs : displayWithoutLock(t)
    \/ \E t \in Procs : DisplayBody(t)
    \/ \E t \in Procs : FinishNewline(t)
    \/ \E t \in Procs : Unlock(t)
    \/ \E t \in Procs : PanicUnlock(t)
    \/ Tick

Spec == Init /\ [][Next]_allvars

\* Scheduling: a goroutine that can run its next statement eventually runs it,
\* and a goroutine waiting in Lock gets the mutex if it is free again and again
\* (sync.Mutex hands over to a waiter starved for 1ms).
FairSpec ==
    /\ Spec
    /\ \A t \in Procs : WF_vars(Step(t))
    /\ \A t \in Procs : SF_vars(Lock(t))

\* --------------------------------------------------- ProgressReporter calls
\* A goroutine that is in no call issues one.
Call(t, o, first) ==
    /\ rpc[t] = "idle"
    /\ rcalls < MaxTimerCalls
    /\ rcalls' = rcalls + 1
    /\ rop' = [rop EXCEPT ![t] = [o EXCEPT !.id = rcalls + 1, !.proc = t]]
    /\ rpc' = [rpc EXCEPT ![t] = first]
    /\ overlap' = (overlap \/ \E u \in Procs \ {t} : rpc[u] \notin {"idle", "panicked"})
    /\ UNCHANGED <<pr, ks, clock, reg, report, rdone, vars>>

StartRecord(t) == Call(t, [NoCall EXCEPT !.name = "StartRecord"], "sr_start")

EndRecord(t) == Call(t, [NoCall EXCEPT !.name = "EndRecord"], "er_end")

StartKeyStageRecord(t, name) ==
    Call(t, [NoCall EXCEPT !.name = "StartKeyStageRecord", !.key = name], "sk_check")

EndKeyStageRecord(t, name) ==
    Call(t, [NoCall EXCEPT !.name = "EndKeyStageRecord", !.key = name], "ek_end")

Report(t) == Call(t, [NoCall EXCEPT !.name = "Report"], "rp_total")

\* The call of goroutine t returns, having stored the clock reading at.
ReturnAt(t, at) ==
    /\ rpc' = [rpc EXCEPT ![t] = "idle"]
    /\ rop' = [rop EXCEPT ![t] = NoCall]
    /\ reg' = [reg EXCEPT ![t] = NoReg]
    /\ rdone' = Append(rdone, [rop[t] EXCEPT !.at = at])

Return(t) == ReturnAt(t, rop[t].at)

Jump(t, label) == rpc' = [rpc EXCEPT ![t] = label]

\* p.startTime = time.Now()
StartRecordStore(t) ==
    /\ rpc[t] = "sr_start"
    /\ pr' = [pr EXCEPT !.startTime = clock]
    /\ ReturnAt(t, clock)
    /\ UNCHANGED <<ks, clock, report, rcalls, overlap, vars>>

\* p.endTime = time.Now()
EndRecordStoreEnd(t) ==
    /\ rpc[t] = "er_end"
    /\ pr' = [pr EXCEPT !.endTime = clock]
    /\ rop' = [rop EXCEPT ![t].at = clock]
    /\ Jump(t, "er_total")
    /\ UNCHANGED <<ks, clock, reg, report, rcalls, rdone, overlap, vars>>

\* p.totalDuration = p.endTime.Sub(p.startTime)
EndRecordStoreTotal(t) ==
    /\ rpc[t] = "er_total"
    /\ pr' = [pr EXCEPT !.totalDuration = Sub(pr.endTime, pr.startTime)]
    /\ Return(t)
    /\ UNCHANGED <<ks, clock, report, rcalls, overlap, vars>>

\* if _, ok := p.ks[name]; !ok
StartKeyCheck(t) ==
    /\ rpc[t] = "sk_check"
    /\ Jump(t, IF rop[t].key \in DOMAIN ks THEN "sk_start" ELSE "sk_insert")
    /\ UNCHANGED <<pr, ks, clock, rop, reg, report, rcalls, rdone, overlap, vars>>

\* p.ks[name] = &keyStage{...}
StartKeyInsert(t) ==
    /\ rpc[t] = "sk_insert"
    /\ ks' = [k \in DOMAIN ks \cup {rop[t].key} |->
                 IF k = rop[t].key THEN NewKeyStage(k) ELSE ks[k]]
    /\ Jump(t, "sk_start")
    /\ UNCHANGED <<pr, clock, rop, reg, report, rcalls, rdone, overlap, vars>>

\* A StartKeyStageRecord that keeps the start time of a stage already started.
StartKeyStoreOnce(t) ==
    /\ rpc[t] = "sk_start"
    /\ ks' = IF ks[rop[t].key].startTime = ZeroTime
             THEN [ks EXCEPT ![rop[t].key].startTime = clock]
             ELSE ks
    /\ ReturnAt(t, clock)
    /\ UNCHANGED <<pr, clock, report, rcalls, overlap, vars>>

\* p.ks[name].startTime = time.Now()
StartKeyStore(t) ==
    /\ rpc[t] = "sk_start"
    /\ ks' = [ks EXCEPT ![rop[t].key].startTime = clock]
    /\ ReturnAt(t, clock)
    /\ UNCHANGED <<pr, clock, report, rcalls, overlap, vars>>

\* p.ks[name].endTime = time.Now(): p.ks[name] is a nil pointer when the name
\* was never started, and the assignment through it panics.
EndKeyStoreEnd(t) ==
    /\ rpc[t] = "ek_end"
    /\ IF rop[t].key \in DOMAIN ks
       THEN /\ ks' = [ks EXCEPT ![rop[t].key].endTime = clock]
            /\ rop' = [rop EXCEPT ![t].at = clock]
            /\ Jump(t, "ek_sub")
       ELSE /\ Jump(t, "panicked")
            /\ UNCHANGED <<ks, rop>>
    /\ UNCHANGED <<pr, clock, reg, report, rcalls, rdone, overlap, vars>>

\* currentDuration := p.ks[name].endTime.Sub(p.ks[name].startTime)
EndKeySub(t) ==
    /\ rpc[t] = "ek_sub"
    /\ reg' = [reg EXCEPT ![t].currentDuration =
                  Sub(ks[rop[t].key].endTime, ks[rop[t].key].startTime)]
    /\ Jump(t, "ek_total_load")
    /\ UNCHANGED <<pr, ks, clock, rop, report, rcalls, rdone, overlap, vars>>

\* p.ks[name].totalDuration += currentDuration: the load
EndKeyTotalLoad(t) ==
    /\ rpc[t] = "ek_total_load"
    /\ reg' = [reg EXCEPT ![t].operand = ks[rop[t].key].totalDuration]
    /\ Jump(t, "ek_total_store")
    /\ UNCHANGED <<pr, ks, clock, rop, report, rcalls, rdone, overlap, vars>>

\* p.ks[name].totalDuration += currentDuration: the store
EndKeyTotalStore(t) ==
    /\ rpc[t] = "ek_total_store"
    /\ ks' = [ks EXCEPT ![rop[t].key].totalDuration =
                 Wrap(reg[t].operand + reg[t].currentDuration)]
    /\ Jump(t, "ek_count_load")
    /\ UNCHANGED <<pr, clock, rop, reg, report, rcalls, rdone, overlap, vars>>

\* p.ks[name].count++: the load
EndKeyCountLoad(t) ==
    /\ rpc[t] = "ek_count_load"
    /\ reg' = [reg EXCEPT ![t].operand = ks[rop[t].key].count]
    /\ Jump(t, "ek_count_store")
    /\ UNCHANGED <<pr, ks, clock, rop, report, rcalls, rdone, overlap, vars>>

\* A count++ that stores the operand back as it was loaded.
EndKeyCountStoreSame(t) ==
    /\ rpc[t] = "ek_count_store"
    /\ ks' = [ks EXCEPT ![rop[t].key].count = reg[t].operand]
    /\ Jump(t, "ek_max")
    /\ UNCHANGED <<pr, clock, rop, reg, report, rcalls, rdone, overlap, vars>>

\* p.ks[name].count++: the store
EndKeyCountStore(t) ==
    /\ rpc[t] = "ek_count_store"
    /\ ks' = [ks EXCEPT ![rop[t].key].count = Wrap(reg[t].operand + 1)]
    /\ Jump(t, "ek_max")
    /\ UNCHANGED <<pr, clock, rop, reg, report, rcalls, rdone, overlap, vars>>

\* if currentDuration > p.ks[name].maxDuration { p.ks[name].maxDuration = currentDuration }
EndKeyMax(t) ==
    /\ rpc[t] = "ek_max"
    /\ ks' = IF reg[t].currentDuration > ks[rop[t].key].maxDuration
             THEN [ks EXCEPT ![rop[t].key].maxDuration = reg[t].currentDuration]
             ELSE ks
    /\ Jump(t, "ek_min")
    /\ UNCHANGED <<pr, clock, rop, reg, report, rcalls, rdone, overlap, vars>>

\* An EndKeyStageRecord that consumes the pending start: the next sample is
\* measured from this end.
EndKeyMinConsumes(t) ==
    /\ rpc[t] = "ek_min"
    /\ ks' = [ks EXCEPT ![rop[t].key].minDuration =
                            IF reg[t].currentDuration < @ THEN reg[t].currentDuration ELSE @,
                        ![rop[t].key].startTime = ks[rop[t].key].endTime]
    /\ Return(t)
    /\ UNCHANGED <<pr, clock, report, rcalls, overlap, vars>>

\* if currentDuration < p.ks[name].minDuration { p.ks[name].minDuration = currentDuration }
EndKeyMin(t) ==
    /\ rpc[t] = "ek_min"
    /\ ks' = IF reg[t].currentDuration < ks[rop[t].key].minDuration
             THEN [ks EXCEPT ![rop[t].key].minDuration = reg[t].currentDuration]
             ELSE ks
    /\ Return(t)
    /\ UNCHANGED <<pr, clock, report, rcalls, overlap, vars>>

TotalLine(id) == [kind |-> "total", id |-> id, key |-> "", count |-> 0,
                  total |-> Seconds(pr.totalDuration), max |-> 0, min |-> 0]

StageLine(id, k) ==
    [kind |-> "stage", id |-> id, key |-> k, count |-> ks[k].count,
     total |-> Seconds(ks[k].totalDuration), max |-> Seconds(ks[k].maxDuration),
     min |-> Seconds(ks[k].minDuration)]

\* The orders in which range may visit the keys of a map.
Orders(S) ==
    {f \in [1 .. Cardinality(S) -> S] : \A i, j \in 1 .. Cardinality(S) : i # j => f[i] # f[j]}

\* A Report that prints no stage line.
ReportStagesNone(t) ==
    /\ rpc[t] = "rp_stages"
    /\ Return(t)
    /\ UNCHANGED <<pr, ks, clock, report, rcalls, overlap, vars>>

\* fmt.Printf("Total duration: %d s\n", p.totalDuration/time.Second)
ReportTotal(t) ==
    /\ rpc[t] = "rp_total"
    /\ report' = Append(report, TotalLine(rop[t].id))
    /\ Jump(t, "rp_stages")
    /\ UNCHANGED <<pr, ks, clock, rop, reg, rcalls, rdone, overlap, vars>>

\* for k, v := range p.ks { fmt.Printf(...) }: one line per key, in the order
\* the map iteration happens to take.
ReportStages(t) ==
    /\ rpc[t] = "rp_stages"
    /\ \E f \in Orders(DOMAIN ks) :
          report' = report \o [i \in 1 .. Cardinality(DOMAIN ks) |-> StageLine(rop[t].id, f[i])]
    /\ Return(t)
    /\ UNCHANGED <<pr, ks, clock, rcalls, overlap, vars>>

\* The ProgressReporter's clock advances.
ClockTick ==
    /\ clock < MaxClock
    /\ clock' = clock + 1
    /\ UNCHANGED <<pr, ks, rpc, rop, reg, report, rcalls, rdone, overlap, vars>>

\* One caller, as the ProgressReporter is meant to be used.
Caller == "g1"

TimerNext ==
    \/ StartRecord(Caller)
    \/ EndRecord(Caller)
    \/ \E name \in StageKeys : StartKeyStageRecord(Caller, name)
    \/ \E name \in StageKeys : EndKeyStageRecord(Caller, name)
    \/ Report(Caller)
    \/ StartRecordStore(Caller)
    \/ EndRecordStoreEnd(Caller)
    \/ EndRecordStoreTotal(Caller)
    \/ StartKeyCheck(Caller)
    \/ StartKeyInsert(Caller)
    \/ StartKeyStore(Caller)
    \/ EndKeyStoreEnd(Caller)
    \/ EndKeySub(Caller)
    \/ EndKeyTotalLoad(Caller)
    \/ EndKeyTotalStore(Caller)
    \/ EndKeyCountLoad(Caller)
    \/ EndKeyCountStore(Caller)
    \/ EndKeyMax(Caller)
    \/ EndKeyMin(Caller)
    \/ ReportTotal(Caller)
    \/ ReportStages(Caller)
    \/ ClockTick

\* A ProgressBar that is constructed and left alone.
BarIdle ==
    /\ Init
    /\ total = MaxInt
    /\ barLength = 1

TimerInit == BarIdle

TimerSpec == TimerInit /\ [][TimerNext]_allvars

\* Two goroutines share the ProgressReporter and time one stage.
RaceKeys == {"a"}

RaceNext ==
    \/ \E t \in Procs, name \in RaceKeys :
          rcalls < MaxRaceCalls /\ StartKeyStageRecord(t, name)
    \/ \E t \in Procs, name \in RaceKeys :
          rcalls < MaxRaceCalls /\ EndKeyStageRecord(t, name)
    \/ \E t \in Procs : StartKeyCheck(t)
    \/ \E t \in Procs : StartKeyInsert(t)
    \/ \E t \in Procs : StartKeyStore(t)
    \/ \E t \in Procs : EndKeyStoreEnd(t)
    \/ \E t \in Procs : EndKeySub(t)
    \/ \E t \in Procs : EndKeyTotalLoad(t)
    \/ \E t \in Procs : EndKeyTotalStore(t)
    \/ \E t \in Procs : EndKeyCountLoad(t)
    \/ \E t \in Procs : EndKeyCountStore(t)
    \/ \E t \in Procs : EndKeyMax(t)
    \/ \E t \in Procs : EndKeyMin(t)
    \/ ClockTick

RaceSpec == TimerInit /\ [][RaceNext]_allvars

\* ------------------------------------------------------- formatProgressBar
\* formatProgressBar as a function of the fields: the bar is in any state
\* with 0 <= current <= total (NewProgressBar, then IncrementBy), and one
\* caller renders it with Display.
FormatInit ==
    /\ \E tot \in 0 .. MaxInt, len \in 1 .. MaxInt :
          \E cur \in 0 .. tot : BarState(tot, cur, len)
    /\ NewProgressReporter

FormatNext ==
    \/ Display(Caller)
    \/ Lock(Caller)
    \/ DisplayBody(Caller)
    \/ Unlock(Caller)
    \/ Tick

FormatSpec == FormatInit /\ [][FormatNext]_allvars

\* ------------------------------------------------- the re-locking variants
\* src/unnamed/part_000 and part_001: IncrementBy, SetCurrentStage and Finish
\* call pb.Display() before their deferred Unlock has run, and Display begins
\* with pb.mu.Lock() itself.  There is no AddTotal.
\* pb.mu.Lock(): at the top of a public method, or at the top of the Display
\* that a method calls.  sync.Mutex is not reentrant: the holder waits too.
VariantLock(t) ==
    /\ pc[t] \in {"lock", "relock"}
    /\ MutexFree
    /\ mu' = t
    /\ pc' = [pc EXCEPT ![t] = IF pc[t] = "relock" \/ op[t].name = "Display"
                               THEN "v_display"
                               ELSE FirstStatement(op[t].name)]
    /\ hist' = IF pc[t] = "lock" THEN Append(hist, op[t]) ELSE hist
    /\ UNCHANGED <<fields, now, op, tmp, out, calls, muts, lin, clamped, total0, tvars>>

\* pb.current += n; if pb.current > pb.total { pb.current = pb.total }; pb.Display()
VariantIncrementByStore(t) ==
    /\ pc[t] = "inc_store"
    /\ LET c == Wrap(tmp[t] + op[t].n)
       IN  current' = IF c > total THEN total ELSE c
    /\ tmp' = [tmp EXCEPT ![t] = 0]
    /\ Goto(t, "relock")
    /\ UNCHANGED <<total, barLength, startTime, description, currentStageName,
                   mu, now, op, out, calls, ghost, tvars>>

\* pb.currentStageName = name; pb.Display()
VariantSetCurrentStageStore(t) ==
    /\ pc[t] = "set_stage"
    /\ currentStageName' = op[t].stage
    /\ Goto(t, "relock")
    /\ UNCHANGED <<total, current, barLength, startTime, description,
                   mu, now, op, tmp, out, calls, ghost, tvars>>

\* pb.current = pb.total; pb.currentStageName = <the done literal>; pb.Display()
VariantFinishStore(t) ==
    /\ pc[t] = "finish_set"
    /\ current' = total
    /\ currentStageName' = DoneStage
    /\ Goto(t, "relock")
    /\ UNCHANGED <<total, barLength, startTime, description,
                   mu, now, op, tmp, out, calls, ghost, tvars>>

\* The body of the variants' Display: the total == 0 branch returns before
\* the newline test.
VariantDisplayBody(t) ==
    /\ pc[t] = "v_display"
    /\ LET text == formatProgressBar(current, total, description, barLength,
                                     now - startTime, currentStageName)
       IN  IF text.panic
           THEN /\ Goto(t, "panic")
                /\ UNCHANGED out
           ELSE /\ out' = IF total = 0
                          THEN Append(out, LineEvent(op[t].id, text))
                          ELSE Printed(op[t].id, text, current, total)
                /\ Goto(t, "v_display_unlock")
    /\ UNCHANGED <<fields, mu, now, op, tmp, calls, ghost, tvars>>

\* The deferred pb.mu.Unlock() of Display: a Display called by the caller
\* returns to it, one called by a method returns into that method.
VariantDisplayUnlock(t) ==
    /\ pc[t] = "v_display_unlock"
    /\ mu' = NoProc
    /\ IF op[t].name = "Display"
       THEN /\ Goto(t, "idle")
            /\ op' = [op EXCEPT ![t] = NoOp]
       ELSE /\ Goto(t, IF op[t].name = "Finish" THEN "finish_nl" ELSE "unlock")
            /\ UNCHANGED op
    /\ UNCHANGED <<fields, now, tmp, out, calls, ghost, tvars>>

VariantStep(t) ==
    \/ IncrementByCheck(t)
    \/ VariantIncrementByStore(t)
    \/ VariantSetCurrentStageStore(t)
    \/ VariantFinishStore(t)
    \/ VariantDisplayBody(t)
    \/ VariantDisplayUnlock(t)
    \/ Unlock(t)

VariantNext ==
    \/ \E t \in Procs : Increment(t)
    \/ \E t \in Procs, n \in IncArgs : IncrementBy(t, n)
    \/ \E t \in Procs, name \in StageNames : SetCurrentStage(t, name)
    \/ \E t \in Procs : Display(t)
    \/ \E t \in Procs : Finish(t)
    \/ \E t \in Procs : VariantLock(t)
    \/ \E t \in Procs : IncrementByCheck(t)
    \/ \E t \in Procs : VariantIncrementByStore(t)
    \/ \E t \in Procs : VariantSetCurrentStageStore(t)
    \/ \E t \in Procs : VariantFinishStore(t)
    \/ \E t \in Procs : VariantDisplayBody(t)
    \/ \E t \in Procs : VariantDisplayUnlock(t)
    \/ \E t \in Procs : Unlock(t)
    \/ Tick

VariantSpec == Init /\ [][VariantNext]_allvars

\* The scheduling of FairSpec.
FairVariantSpec ==
    /\ VariantSpec
    /\ \A t \in Procs : WF_vars(VariantStep(t))
    /\ \A t \in Procs : SF_vars(VariantLock(t))

\* ------------------------------------------------------------ properties
AllReturned == \A t \in Procs : pc[t] = "idle"

\* No goroutine is between Lock and Unlock.
Quiescent == \A t \in Procs : pc[t] \in {"idle", "lock", "panicked"}

Indices(s) == 1 .. Len(s)

Last(s) == s[Len(s)]

Min(a, b) == IF a <= b THEN a ELSE b

Max(a, b) == IF a >= b THEN a ELSE b

\* C1: 0 <= current <= total holds in every reachable state of a ProgressBar
\* created with total >= 0, whatever calls are made.
C1_CurrentWithinTotal == 0 <= current /\ current <= total

\* C2: when only Increment calls were made, at most as many as the total the
\* bar was created with, and all of them have returned, current is exactly the
\* number of calls: no update is lost.
C2_NoLostUpdates ==
    (/\ AllReturned
     /\ Len(hist) = calls
     /\ \A i \in Indices(hist) : hist[i].name = "Increment"
     /\ calls <= total0)
    => current = calls

\* C2 witness: two goroutines have each completed one Increment.
C2_Witness ==
    /\ AllReturned
    /\ Len(hist) = 2
    /\ \A i \in Indices(hist) : hist[i].name = "Increment"
    /\ {hist[i].proc : i \in Indices(hist)} = Procs
    /\ total0 >= 2
    /\ current = 2

\* The sum of the arguments of the applied calls of hist with a name in names
\* (a rejected IncrementBy applies nothing).
RECURSIVE SumArgs(_, _)
SumArgs(s, names) ==
    IF s = <<>> THEN 0
    ELSE (IF Head(s).name \in names /\ ~(Head(s).name = "IncrementBy" /\ Head(s).n < 0)
          THEN Head(s).n ELSE 0) + SumArgs(Tail(s), names)

\* The stage names written by the SetCurrentStage calls of hist, in lock order.
StagesSet(s) == SelectSeq(s, LAMBDA o : o.name = "SetCurrentStage")

\* The fields equal the result of running the calls of hist one at a time.
SequentialOrder ==
    Quiescent =>
        /\ current = lin.current
        /\ total = lin.total
        /\ currentStageName = lin.stage

\* C3: once the IncrementBy, AddTotal and SetCurrentStage calls issued so far
\* are over, the fields are those of running them one at a time in the order
\* they took the lock; when no clamp was hit, total is the initial total plus
\* the sum of the deltas and current the sum of the increments; the stage name
\* is the argument of the SetCurrentStage that took the lock last.
C3_Linearizable ==
    (/\ Quiescent
     /\ \A i \in Indices(hist) :
            hist[i].name \in {"Increment", "IncrementBy", "AddTotal", "SetCurrentStage"})
    => /\ SequentialOrder
       /\ ~clamped =>
            /\ total = total0 + SumArgs(hist, {"AddTotal"})
            /\ current = 0 + SumArgs(hist, {"Increment", "IncrementBy"})
       /\ StagesSet(hist) # <<>> => currentStageName = Last(StagesSet(hist)).stage

\* A step of goroutine t inside its call.
Acts(t) == pc'[t] # pc[t]

\* C4: a call IncrementBy(n) with n < 0 changes none of current, total and
\* currentStageName, and writes nothing but the error notice: no status line.
C4_NegativeIsNoOp ==
    [][\A t \in Procs :
          (op[t].name = "IncrementBy" /\ op[t].n < 0 /\ pc[t] # "idle" /\ Acts(t))
          => /\ current' = current
             /\ total' = total
             /\ currentStageName' = currentStageName
             /\ \/ out' = out
                \/ out' = Append(out, NoticeEvent(op[t].id))
             /\ pc'[t] \in {"inc_check", "unlock", "idle"}]_vars

\* C4 witness: IncrementBy(-1) has returned from a state with current > 0,
\* leaving its notice as the last thing written.
C4_Witness ==
    /\ AllReturned
    /\ Len(hist) = 2
    /\ hist[2].name = "IncrementBy" /\ hist[2].n < 0
    /\ current > 0
    /\ Last(out) = NoticeEvent(hist[2].id)

\* C5: AddTotal(delta) sets total to max(total + delta, 0) and current to
\* min(current, new total), for every delta and every prior state.
C5_AddTotalClamps ==
    [][\A t \in Procs :
          (pc[t] = "add_store" /\ pc'[t] = "render")
          => /\ total' = Max(total + op[t].n, 0)
             /\ current' = Min(current, total')]_vars

\* C6: IncrementBy(n) with n >= 0, from 0 <= current <= total, sets current to
\* min(current + n, total) and leaves total alone; Increment is IncrementBy(1).
C6_IncrementByClamps ==
    [][\A t \in Procs :
          (/\ pc[t] = "inc_store" /\ pc'[t] = "render"
           /\ 0 <= current /\ current <= total)
          => /\ op[t].name = "Increment" => op[t].n = 1
             /\ current' = Min(current + op[t].n, total)
             /\ total' = total]_vars

\* C7: when Finish returns, current = total and the stage name is the done
\* marker, whatever the state was before the call.
C7_FinishCompletes ==
    [][\A t \in Procs :
          (op[t].name = "Finish" /\ pc[t] # "idle" /\ pc'[t] = "idle")
          => /\ current' = total'
             /\ currentStageName' = DoneStage]_vars

\* C7 witness: Finish has returned after a SetCurrentStage on a bar that was
\* not complete (current 0, total > 0, another stage name).
C7_Witness ==
    /\ AllReturned
    /\ Len(hist) = 2
    /\ hist[1].name = "SetCurrentStage"
    /\ hist[2].name = "Finish"
    /\ total > 0
    /\ current = total
    /\ currentStageName = DoneStage

\* C8: every call that has been issued eventually returns to its caller.
C8_EveryCallReturns ==
    \A t \in Procs : (pc[t] # "idle") ~> (pc[t] = "idle")

\* Every call that has been issued ends: it returns or it unwinds in a panic.
EveryCallEnds ==
    \A t \in Procs : (pc[t] # "idle") ~> (pc[t] \in {"idle", "panicked"})

\* No goroutine waits for the mutex while holding it, and whenever the mutex is
\* held its holder has a statement to run.
NoSelfDeadlock ==
    \A t \in Procs :
        /\ (mu = t => pc[t] \notin {"idle", "lock", "panicked"})
        /\ (pc[t] \notin {"idle", "lock", "panicked"} => mu = t)

\* The status lines written by mutating calls, in the order written.
MutatorLines ==
    SelectSeq(out, LAMBDA e : e.kind = "line" /\ \E j \in Indices(muts) : muts[j].id = e.id)

\* The mutations whose status line has been written, in the order they took effect.
PrintedMutations ==
    SelectSeq(muts, LAMBDA m : \E k \in Indices(out) : out[k].kind = "line" /\ out[k].id = m.id)

\* C9: the status line a mutating call prints shows the current, total and
\* stage of the state right after that call's own mutation; nothing is written
\* and nothing is mutated between a call's mutation and its line; the lines
\* appear in the order the mutations took effect.
C9_UpdateAndDisplayAtomic ==
    /\ Len(MutatorLines) = Len(PrintedMutations)
    /\ \A i \in Indices(MutatorLines) :
          LET e == MutatorLines[i]
              m == PrintedMutations[i]
          IN  /\ e.id = m.id
              /\ e.text[1].current = m.current
              /\ e.text[1].total = m.total
              /\ e.text[1].stage = m.stage
    /\ \A k \in Indices(out), j \in Indices(muts) :
          (out[k].kind = "line" /\ out[k].id = muts[j].id)
          => /\ muts[j].outLen = k - 1
             /\ j < Len(muts) => muts[j + 1].outLen >= k

\* C9 witness: two goroutines have each made a mutating call and both lines
\* are on the console, showing different values.
C9_Witness ==
    /\ AllReturned
    /\ Len(MutatorLines) = 2
    /\ {hist[i].proc : i \in Indices(hist)} = Procs
    /\ MutatorLines[1].text[1].current # MutatorLines[2].text[1].current

\* C10: a render with total = 0 does not panic and divides nothing by total;
\* the line it writes has no fill characters, barLength empty characters,
\* percentage 0 and the counts current/total as they are.
C10_ZeroTotalRender ==
    [][\A t \in Procs :
          (pc[t] \in {"render", "display"} /\ Acts(t) /\ total = 0)
          => /\ pc'[t] # "panic"
             /\ Len(out') > Len(out)
             /\ LET e == out'[Len(out) + 1]
                IN  /\ e.kind = "line"
                    /\ e.text[1].fill = 0
                    /\ e.text[1].empty = barLength
                    /\ e.text[1].percent = 0
                    /\ e.text[1].current = current
                    /\ e.text[1].total = 0
                    /\ "total" \notin e.text[1].divisors]_vars

\* C10 witness: a bar created with total > 0 was driven to total 0 by AddTotal,
\* whose status line is on the console.
C10_Witness ==
    /\ total0 > 0
    /\ \E k \in Indices(out), i \in Indices(hist) :
          /\ out[k].kind = "line"
          /\ out[k].id = hist[i].id
          /\ hist[i].name = "AddTotal"
          /\ out[k].text[1].total = 0

\* C11: no call of either component is fatal: no goroutine's call to the
\* ProgressReporter or to the ProgressBar ends in a panic, whatever the
\* sequence of calls (EndKeyStageRecord for a name never started and
\* EndRecord before StartRecord included).
C11_NoCallIsFatal ==
    \A t \in Procs :
        /\ rpc[t] # "panicked"
        /\ pc[t] \notin {"panic", "panicked"}

\* EndRecord before any StartRecord returns, with the saturated duration.
EndRecordAloneReturns ==
    (Len(rdone) = 1 /\ rdone[1].name = "EndRecord" /\ rpc[Caller] = "idle")
    => pr.totalDuration = MaxDuration

\* The StartKeyStageRecord and EndKeyStageRecord calls for name that have
\* returned, in order.
StageCalls(name) ==
    SelectSeq(rdone, LAMBDA e : e.key = name
                                /\ e.name \in {"StartKeyStageRecord", "EndKeyStageRecord"})

\* Every Start is followed by its End and every End follows its Start.
Paired(s) ==
    /\ Len(s) % 2 = 0
    /\ \A i \in Indices(s) :
          s[i].name = IF i % 2 = 1 THEN "StartKeyStageRecord" ELSE "EndKeyStageRecord"

\* The durations of the pairs of s: end reading minus start reading.
Samples(s) == [j \in 1 .. (Len(s) \div 2) |-> s[2 * j].at - s[2 * j - 1].at]

RECURSIVE SumSeq(_)
SumSeq(s) == IF s = <<>> THEN 0 ELSE Head(s) + SumSeq(Tail(s))

Largest(S) == CHOOSE x \in S : \A y \in S : y <= x

Smallest(S) == CHOOSE x \in S : \A y \in S : x <= y

Range(s) == {s[i] : i \in Indices(s)}

\* C12: after k >= 1 correctly paired Start/EndKeyStageRecord(name) calls,
\* count is k, totalDuration the sum of the k samples, maxDuration the
\* largest and minDuration the smallest of them; with k = 1 all three
\* durations are the one sample.
C12_PairedStatistics ==
    \A name \in StageKeys :
        LET s == StageCalls(name)
            d == Samples(s)
        IN  (rpc[Caller] = "idle" /\ Paired(s) /\ Len(s) >= 2)
            => /\ name \in DOMAIN ks
               /\ \A j \in Indices(d) : d[j] >= 0
               /\ ks[name].count = Len(d)
               /\ ks[name].totalDuration = SumSeq(d)
               /\ ks[name].maxDuration = Largest(Range(d))
               /\ ks[name].minDuration = Smallest(Range(d))
               /\ Len(d) = 1 =>
                    /\ ks[name].minDuration = d[1]
                    /\ ks[name].maxDuration = d[1]
                    /\ ks[name].totalDuration = d[1]

\* C12 witness: two pairs for one name, the first sample of 2 ticks, the
\* second of 1 tick.
C12_Witness ==
    /\ rpc[Caller] = "idle"
    /\ \E name \in StageKeys :
          /\ Paired(StageCalls(name))
          /\ Samples(StageCalls(name)) = <<2, 1>>
          /\ ks[name].count = 2
          /\ ks[name].minDuration = 1
          /\ ks[name].maxDuration = 2

\* The name of the call with the given id, once it has taken the lock.
CallName(id) ==
    IF \E i \in Indices(hist) : hist[i].id = id
    THEN hist[CHOOSE i \in Indices(hist) : hist[i].id = id].name
    ELSE "none"

\* The status line at position k of the console is followed by its own line
\* terminator.
Terminated(k) ==
    /\ k < Len(out)
    /\ out[k + 1].kind = "newline"
    /\ out[k + 1].id = out[k].id

\* C13: a status line written by Display, IncrementBy, AddTotal or
\* SetCurrentStage is followed by a line terminator exactly when it shows
\* current = total with total > 0; with current # total or total = 0 the line
\* is left unterminated.
C13_NewlineIffComplete ==
    \A k \in Indices(out) :
        (out[k].kind = "line" /\ CallName(out[k].id) # "Finish")
        => (Terminated(k)
            <=> (out[k].text[1].current = out[k].text[1].total
                 /\ out[k].text[1].total > 0))

\* The lines printed by the Report call with the given id, in order.
ReportLines(id) == SelectSeq(report, LAMBDA l : l.id = id)

\* The names whose StartKeyStageRecord had returned before position i of rdone.
StartedBefore(i) ==
    {rdone[j].key : j \in {x \in 1 .. (i - 1) : rdone[x].name = "StartKeyStageRecord"}}

\* C14: a Report that has returned has printed exactly one total-duration
\* line followed by exactly one line per distinct stage name in the map (on a
\* fresh reporter: the total line alone), and no step of Report changes the
\* reporter or a stage.
C14_ReportLines ==
    /\ [](\A i \in Indices(rdone) :
            rdone[i].name = "Report" =>
                LET l == ReportLines(rdone[i].id)
                IN  /\ Len(l) = 1 + Cardinality(StartedBefore(i))
                    /\ l[1].kind = "total"
                    /\ \A k \in 2 .. Len(l) : l[k].kind = "stage"
                    /\ {l[k].key : k \in 2 .. Len(l)} = StartedBefore(i))
    /\ [][(rop[Caller].name = "Report" /\ rpc'[Caller] # rpc[Caller])
          => (pr' = pr /\ ks' = ks)]_allvars

\* C14 witness: Report has returned on a reporter with two stage names and
\* has printed three lines.
C14_Witness ==
    \E i \in Indices(rdone) :
        /\ rdone[i].name = "Report"
        /\ Cardinality(StartedBefore(i)) = 2
        /\ Len(ReportLines(rdone[i].id)) = 3

\* C15: a status line with total > 0 and 0 <= current <= total shows
\* floor(barLength * current / total) fill characters followed by the empty
\* characters that make the bar exactly barLength long, and the counts
\* current and total as they are.
C15_BarFill ==
    \A k \in Indices(out) :
        LET l == out[k].text[1]
        IN  (/\ out[k].kind = "line"
             /\ l.total > 0 /\ 0 <= l.current /\ l.current <= l.total)
            => /\ l.fill = (barLength * l.current) \div l.total
               /\ l.empty = barLength - l.fill
               /\ l.fill + l.empty = barLength
               /\ l.current = current
               /\ l.total = total

\* The bar of every status line is barLength characters long.
BarWidth ==
    \A k \in Indices(out) :
        out[k].kind = "line" =>
            /\ out[k].text[1].fill >= 0
            /\ out[k].text[1].empty >= 0
            /\ out[k].text[1].fill + out[k].text[1].empty = barLength

\* The rate of a status line is zero.
RateIsZero(l) == l.avg[1] = 0

\* C16: the ETA field of every status line is "done" when current = total;
\* otherwise "estimating" when current = 0 and total > 0; otherwise the
\* estimate (total - current) / rate, to the nearest second, when rate > 0;
\* and it is "unavailable" exactly when none of these applies, rate = 0 and
\* current > 0.  The rate is 0 unless elapsed > 0 and current > 0.
C16_EtaField ==
    \A k \in Indices(out) :
        out[k].kind = "line" =>
            LET l == out[k].text[1]
                done == l.current = l.total
                estimating == ~done /\ l.current = 0 /\ l.total > 0
                numeric == ~done /\ ~estimating /\ ~RateIsZero(l)
            IN  /\ RateIsZero(l) <=> ~(l.elapsed > 0 /\ l.current > 0)
                /\ done => l.eta.kind = "Done"
                /\ estimating => l.eta.kind = "Estimating..."
                /\ numeric =>
                     /\ l.eta.kind = "duration"
                     /\ l.current < l.total =>
                          LET d == (2 * l.eta.secs * l.current)
                                   - (2 * (l.total - l.current) * l.elapsed)
                          IN  -l.current < d /\ d <= l.current
                /\ l.eta.kind = "N/A"
                     <=> (~done /\ ~estimating /\ RateIsZero(l) /\ l.current > 0)

\* C17: in the variants whose IncrementBy, SetCurrentStage and Finish call
\* Display while holding the mutex, every call to Increment, IncrementBy(n)
\* with n >= 0, SetCurrentStage or Finish returns: none blocks for ever.
C17_VariantCallsReturn ==
    \A t \in Procs :
        (/\ pc[t] # "idle"
         /\ \/ op[t].name \in {"Increment", "SetCurrentStage", "Finish"}
            \/ op[t].name = "IncrementBy" /\ op[t].n >= 0)
        ~> (pc[t] = "idle")

\* No goroutine waits for the mutex it holds itself.
NoRelockWhileHolding == \A t \in Procs : ~(pc[t] = "relock" /\ mu = t)

\* In the variants the calls that do return: Display, and IncrementBy(n) with
\* n < 0, once the mutex is free.
VariantRejectedReturns ==
    \A t \in Procs :
        (pc[t] = "inc_check" /\ op[t].n < 0) ~> (pc[t] = "idle")

\* C18: no step of Display changes a field; SetCurrentStage changes only
\* currentStageName, IncrementBy (and Increment) only current, AddTotal only
\* total and current, Finish only current and currentStageName; barLength,
\* startTime and description are never changed by any step, and a field
\* changes only in a step of some call.  Renders of the same current, total
\* and stage show the same bar and percentage.
C18_Frame ==
    /\ [][/\ barLength' = barLength
          /\ startTime' = startTime
          /\ description' = description
          /\ fields' # fields => \E t \in Procs : Acts(t)
          /\ \A t \in Procs :
                Acts(t) =>
                    /\ op[t].name = "Display"
                         => UNCHANGED <<total, current, currentStageName>>
                    /\ op[t].name = "SetCurrentStage" => UNCHANGED <<total, current>>
                    /\ op[t].name \in {"Increment", "IncrementBy"}
                         => UNCHANGED <<total, currentStageName>>
                    /\ op[t].name = "AddTotal" => UNCHANGED currentStageName
                    /\ op[t].name = "Finish" => UNCHANGED total]_vars
    /\ [](\A i, j \in Indices(out) :
            (/\ out[i].kind = "line" /\ out[j].kind = "line"
             /\ out[i].text[1].current = out[j].text[1].current
             /\ out[i].text[1].total = out[j].text[1].total
             /\ out[i].text[1].stage = out[j].text[1].stage)
            => /\ out[i].text[1].fill = out[j].text[1].fill
               /\ out[i].text[1].empty = out[j].text[1].empty
               /\ out[i].text[1].percent = out[j].text[1].percent
               /\ out[i].text[1].description = out[j].text[1].description)

\* C18 witness: after an Increment, SetCurrentStage has returned: the stage
\* is the one it set and current is still 1.
C18_Witness ==
    /\ AllReturned
    /\ Len(hist) = 2
    /\ hist[1].name = "Increment"
    /\ hist[2].name = "SetCurrentStage"
    /\ currentStageName = hist[2].stage
    /\ current = 1
    /\ total = total0

\* The statistics of a keyStage.
Statistics(k) == <<k.count, k.totalDuration, k.maxDuration, k.minDuration>>

\* C19: StartKeyStageRecord(name) always sets the pending start to the clock
\* reading it takes, and on a name already known it leaves count,
\* totalDuration, maxDuration and minDuration as they are; when it was called
\* several times before the one EndKeyStageRecord(name), the earlier starts
\* are discarded: exactly one sample is recorded, measured from the last
\* start.
C19_StartResetsPendingStart ==
    /\ [][(rop[Caller].name = "StartKeyStageRecord" /\ rpc'[Caller] # rpc[Caller])
          => /\ rop[Caller].key \in DOMAIN ks
                  => /\ rop[Caller].key \in DOMAIN ks'
                     /\ Statistics(ks'[rop[Caller].key]) = Statistics(ks[rop[Caller].key])
             /\ rpc'[Caller] = "idle"
                  => ks'[rop[Caller].key].startTime = clock]_allvars
    /\ [](\A name \in StageKeys :
            LET s == StageCalls(name)
                n == Len(s)
            IN  (/\ rpc[Caller] = "idle"
                 /\ n >= 2
                 /\ s[n].name = "EndKeyStageRecord"
                 /\ \A i \in 1 .. (n - 1) : s[i].name = "StartKeyStageRecord")
                => /\ ks[name].count = 1
                   /\ ks[name].totalDuration = s[n].at - s[n - 1].at
                   /\ ks[name].maxDuration = s[n].at - s[n - 1].at
                   /\ ks[name].minDuration = s[n].at - s[n - 1].at)

\* C19 witness: Start, a later Start and a still later End have returned for
\* one name; the one sample is shorter than the time since the first Start.
C19_Witness ==
    /\ rpc[Caller] = "idle"
    /\ \E name \in StageKeys :
          LET s == StageCalls(name)
          IN  /\ Len(s) = 3
              /\ s[1].name = "StartKeyStageRecord"
              /\ s[2].name = "StartKeyStageRecord"
              /\ s[3].name = "EndKeyStageRecord"
              /\ s[1].at < s[2].at /\ s[2].at < s[3].at
              /\ ks[name].count = 1
              /\ ks[name].totalDuration = s[3].at - s[2].at

\* The number of EndKeyStageRecord(name) calls that have returned.
EndsReturned(name) ==
    Cardinality({i \in Indices(rdone) :
                    rdone[i].name = "EndKeyStageRecord" /\ rdone[i].key = name})

\* No goroutine is inside a ProgressReporter call.
TimerQuiescent == \A t \in Procs : rpc[t] \in {"idle", "panicked"}

\* C20: the ProgressReporter takes no lock.  When goroutines run
\* StartKeyStageRecord and EndKeyStageRecord on one name, the load and the
\* store of count++ interleave and updates are lost: once the calls are over,
\* count is at most the number of EndKeyStageRecord calls that have returned
\* (a state with count below that number is reached: the witness), and it is
\* that number whenever no call was issued while another was in progress.
C20_UnguardedCount ==
    \A name \in RaceKeys :
        (TimerQuiescent /\ name \in DOMAIN ks)
        => /\ ks[name].count <= EndsReturned(name)
           /\ ~overlap => ks[name].count = EndsReturned(name)

\* C20 witness: the name was started, then two goroutines each completed an
\* EndKeyStageRecord on it, and count is 1: one update is lost.
C20_Witness ==
    /\ TimerQuiescent
    /\ \E name \in RaceKeys :
          /\ name \in DOMAIN ks
          /\ Len(rdone) = 3
          /\ rdone[1].name = "StartKeyStageRecord"
          /\ rdone[2].name = "EndKeyStageRecord"
          /\ rdone[3].name = "EndKeyStageRecord"
          /\ rdone[2].proc # rdone[3].proc
          /\ EndsReturned(name) = 2
          /\ ks[name].count = 1

\* The positions of the EndKeyStageRecord calls in s.
EndPositions(s) == {i \in Indices(s) : s[i].name = "EndKeyStageRecord"}

\* The position of the last StartKeyStageRecord before position i of s.
LastStartBefore(s, i) ==
    Largest({j \in 1 .. (i - 1) : s[j].name = "StartKeyStageRecord"})

\* What the End at position i of s measures when the pending start is kept:
\* its reading minus the reading of the last Start before it.
EndSample(s, i) == s[i].at - s[LastStartBefore(s, i)].at

RECURSIVE SumOver(_, _)
SumOver(s, P) ==
    IF P = {} THEN 0
    ELSE LET i == CHOOSE x \in P : TRUE
         IN  EndSample(s, i) + SumOver(s, P \ {i})

\* C21: EndKeyStageRecord does not consume the pending start.  No step of it
\* changes the stage's startTime; an End that follows an End with no Start in
\* between is accepted and records a further sample, measured from the same
\* start and so at least as large as the one before; count is the number of
\* EndKeyStageRecord calls, and totalDuration counts every End's sample, the
\* repeated interval included (as long as the sum fits in a Duration).
C21_EndKeepsPendingStart ==
    /\ [][(rop[Caller].name = "EndKeyStageRecord" /\ rpc'[Caller] # rpc[Caller])
          => \A name \in DOMAIN ks :
                /\ name \in DOMAIN ks'
                /\ ks'[name].startTime = ks[name].startTime]_allvars
    /\ [](\A name \in StageKeys :
            LET s == StageCalls(name)
                E == EndPositions(s)
            IN  (rpc[Caller] = "idle" /\ E # {})
                => /\ ks[name].count = Cardinality(E)
                   /\ \A i \in E :
                         (i - 1) \in E => EndSample(s, i) >= EndSample(s, i - 1)
                   /\ ks[name].maxDuration = Largest({EndSample(s, i) : i \in E})
                   /\ ks[name].minDuration = Smallest({EndSample(s, i) : i \in E})
                   /\ SumOver(s, E) <= MaxDuration
                        => ks[name].totalDuration = SumOver(s, E))

\* C21 witness: Start at 0, End at 1 and a second End at 3 have returned for
\* one name: count is 2 and the first tick is counted twice, 1 + 3 = 4.
C21_Witness ==
    /\ rpc[Caller] = "idle"
    /\ \E name \in StageKeys :
          LET s == StageCalls(name)
          IN  /\ Len(s) = 3
              /\ s[1].name = "StartKeyStageRecord" /\ s[1].at = 0
              /\ s[2].name = "EndKeyStageRecord" /\ s[2].at = 1
              /\ s[3].name = "EndKeyStageRecord" /\ s[3].at = 3
              /\ ks[name].count = 2
              /\ ks[name].totalDuration = 4
              /\ ks[name].minDuration = 1
              /\ ks[name].maxDuration = 3
              /\ ks[name].startTime = 0

====
